---- MODULE Spec2Model ----
(***************************************************************************)
(* The AssemblyAI speech-to-text adapter (class AssemblyAISTT) of the      *)
(* Voice Sandwich Agent, src/components/typescript/src/assemblyai/stt.ts,  *)
(* as a state machine.  The adapter object, the vendor WebSocket(s) it     *)
(* opens, the calls to sendAudio() and close() in progress and the events  *)
(* pushed to its output buffer are the state; every public operation and   *)
(* every WebSocket event handler is one action.  SpecConsume adds a        *)
(* consumer iterating receiveEvents(); PipeSpec is the three-stage         *)
(* generator pipeline (sttStream, agentStream, ttsStream) listed in        *)
(* src/infrastructure/simple-deploy.md; HandlerSpec is the Lambda handler  *)
(* with its secret cache (stt.ts:136-202); ConstructSpec is the            *)
(* constructor of the adapter and the connection request its getter makes. *)
(* Spec and SpecConsume start from an adapter already constructed: its     *)
(* configuration has no part in the actions they take.                     *)
(*                                                                         *)
(* JavaScript runs handlers and promise continuations to completion: a     *)
(* continuation of `await p` on a settled promise runs as a microtask      *)
(* before any further socket event, so a call that finds the connection    *)
(* promise settled runs up to its next real suspension point in one step,  *)
(* and the continuations waiting on a pending promise run, in the order    *)
(* they were registered, in the step that settles it.                      *)
(***************************************************************************)
EXTENDS Integers, Sequences, FiniteSets

\* ---------------------------------------------------------------- bounds
\* MaxCalls bounds the calls made to the adapter (sendAudio and close
\* together), MaxMsgs the vendor messages received.  A socket is only ever
\* constructed by a sendAudio call, so MaxCalls bounds the sockets too.
MaxCalls == 3
MaxMsgs == 2
\* For the pipeline, over a whole run: the events sttStream yields, the
\* messages the agent's responses hold, and the audio chunks synthesized.
MaxUpstream == 3
MaxChunks == 2
MaxAudio == 2
\* The number of messages the agent's memory keeps (maxMessages, 20 in the
\* deployment guide), scaled down so that a short run reaches it.
MaxMessages == 2
\* The invocations of the Lambda handler in one process.
MaxInvocations == 2

Invocations == 1..MaxInvocations
Sockets == 1..MaxCalls
Frames == 1..MaxCalls
CloseCalls == 1..MaxCalls

\* ------------------------------------------------------- vendor messages
\* The JavaScript value undefined (a field absent from the JSON object).
Undefined == "<undefined>"

\* What JSON.parse(data.toString()) yields, as far as the handler looks at
\* it: type "Unparseable" stands for data on which JSON.parse throws.
NonTurnMessages ==
    { [type |-> t, turn_is_formatted |-> Undefined, transcript |-> Undefined] :
        t \in {"Unparseable", "Begin", "Termination", "Error", "Other"} }

TurnMessages ==
    { [type |-> "Turn", turn_is_formatted |-> f, transcript |-> t] :
        f \in {Undefined, "false", "true"}, t \in {Undefined, "", "hi"} }

Messages == NonTurnMessages \cup TurnMessages

\* JavaScript truthiness of the two fields the handler tests.
TruthyFlag(b) == b = "true"
TruthyString(s) == s \notin {Undefined, ""}

STTEvent(kind, text) == [type |-> kind, transcript |-> text]

\* ----------------------------------------------------------------- state
VARIABLES
    wsState,            \* readyState of each WebSocket ever constructed
    wsErrored,          \* whether the socket's 'error' event has fired
    connectionPromise,  \* this._connectionPromise
    waiters,            \* continuations awaiting the pending promise, in order
    sent,               \* what has been transmitted on each socket, in order
    audio,              \* outcome of each sendAudio() call
    closePc,            \* position of each close() call
    closeWs,            \* the socket each close() call obtained from its await
    pushed,             \* every event pushed to this._bufferIterator, in order
    cancelled,          \* this._bufferIterator.cancel() has been called
    nMsgs,              \* number of vendor messages received so far
    termMark,           \* Len(pushed) when terminate was first transmitted
    queue,              \* what this._bufferIterator holds for its consumer
    delivered,          \* the events receiveEvents() has yielded, in order
    consumerDone,       \* the receiveEvents() sequence has ended
    upstream,           \* pipeline: the events sttStream has yielded
    agentPc,            \* pipeline: position of agentStream
    agentIn,            \* pipeline: number of events agentStream has taken
    agentOut,           \* pipeline: the events agentStream has yielded
    ttsPc,              \* pipeline: position of ttsStream
    ttsIn,              \* pipeline: number of events ttsStream has taken
    ttsOut,             \* pipeline: the events ttsStream has yielded
    history,            \* pipeline: the agent's conversation memory
    cachedSecrets,      \* handler: the module variable cachedSecrets
    secretsArn,         \* handler: process.env.SECRETS_ARN, once it was read
    hPc,                \* handler: position of each invocation
    hRoute,             \* handler: event.routeKey of each invocation
    hLoad,              \* handler: how getSecrets() went in each invocation
    hResp,              \* handler: what each invocation returned
    fetches,            \* handler: number of client.send(command) calls made
    ctorPc,             \* constructor: position of new AssemblyAISTT(options)
    options,            \* constructor: the options of the calls made to it
    envKey,             \* constructor: process.env.ASSEMBLYAI_API_KEY, once read
    adapter,            \* constructor: the adapters that exist, with their fields
    request             \* getter: the calls of new WebSocket, with their arguments

\* The adapter and its sockets, the consumer of receiveEvents(), the
\* three-stage pipeline, and the Lambda handler with its secret cache.
adapterVars == <<wsState, wsErrored, connectionPromise, waiters, sent, audio,
                 closePc, closeWs, pushed, cancelled, nMsgs, termMark, queue>>
consumerVars == <<delivered, consumerDone>>
pipeVars == <<upstream, agentPc, agentIn, agentOut, ttsPc, ttsIn, ttsOut, history>>

handlerVars == <<cachedSecrets, secretsArn, hPc, hRoute, hLoad, hResp, fetches>>

\* The construction of an adapter and the connection request it makes.
ctorVars == <<ctorPc, options, envKey, adapter, request>>

vars == <<adapterVars, consumerVars, pipeVars, handlerVars, ctorVars>>

NullPromise == [ws |-> 0, st |-> "null"]
Promise(s, st) == [ws |-> s, st |-> st]

AudioItem(f) == [k |-> "audio", id |-> f]
TerminateItem == [k |-> "terminate", id |-> 0]
CloseWaiter(c) == [k |-> "close", id |-> c]

\* An APIGatewayProxyResultV2; NoResponse while the invocation has not
\* returned, Thrown for a handler promise that rejects.
Response(code, body) == [statusCode |-> code, body |-> body]
NoResponse == [statusCode |-> 0, body |-> "<none>"]
Thrown == [statusCode |-> 0, body |-> "<thrown>"]

\* A number that is absent (undefined), as the option sampleRate may be.
NoRate == -1

Init ==
    /\ wsState = [s \in Sockets |-> "NONE"]
    /\ wsErrored = [s \in Sockets |-> FALSE]
    /\ connectionPromise = NullPromise
    /\ waiters = <<>>
    /\ sent = [s \in Sockets |-> <<>>]
    /\ audio = [f \in Frames |-> "idle"]
    /\ closePc = [c \in CloseCalls |-> "idle"]
    /\ closeWs = [c \in CloseCalls |-> 0]
    /\ pushed = <<>>
    /\ cancelled = FALSE
    /\ nMsgs = 0
    /\ termMark = [s \in Sockets |-> -1]
    /\ queue = <<>>
    /\ delivered = <<>>
    /\ consumerDone = FALSE
    /\ upstream = <<>>
    /\ agentPc = "next"
    /\ agentIn = 0
    /\ agentOut = <<>>
    /\ ttsPc = "next"
    /\ ttsIn = 0
    /\ ttsOut = <<>>
    /\ history = <<>>
    /\ cachedSecrets = "null"
    /\ secretsArn = "unread"
    /\ hPc = [i \in Invocations |-> "idle"]
    /\ hRoute = [i \in Invocations |-> Undefined]
    /\ hLoad = [i \in Invocations |-> "none"]
    /\ hResp = [i \in Invocations |-> NoResponse]
    /\ fetches = 0
    /\ ctorPc = "new"
    /\ options = <<>>
    /\ envKey = "unread"
    /\ adapter = <<>>
    /\ request = <<>>

\* ------------------------------------------------------------- helpers
Range(q) == { q[i] : i \in 1..Len(q) }

RECURSIVE CountType(_, _)
CountType(q, kind) ==
    IF q = <<>> THEN 0
    ELSE (IF q[1].type = kind THEN 1 ELSE 0) + CountType(Tail(q), kind)

\* The socket a new WebSocket(url, ...) yields: the next one never constructed.
FreshSocket == CHOOSE s \in Sockets : wsState[s] = "NONE" /\ \A r \in 1..(s - 1) : wsState[r] # "NONE"
HasFreshSocket == \E s \in Sockets : wsState[s] = "NONE"

NumCalls ==
    Cardinality({f \in Frames : audio[f] # "idle"})
        + Cardinality({c \in CloseCalls : closePc[c] # "idle"})

\* Len(pushed) at the first transmission of terminate_session on socket s.
MarkTerminate(s) == [termMark EXCEPT ![s] = IF @ = -1 THEN Len(pushed) ELSE @]

\* What close() hands to ws.send() before it starts its timer:
\* JSON.stringify({ terminate_session: true }).
CloseSends_Nothing == <<>>
CloseSends == <<TerminateItem>>

\* What ws.send() transmits for the continuations resumed by 'open', in the
\* order they were registered.  (WaiterItems_Lifo resumes them last first.)
RECURSIVE WaiterItems_Lifo(_)
WaiterItems_Lifo(q) ==
    IF q = <<>> THEN <<>>
    ELSE WaiterItems_Lifo(Tail(q))
            \o (IF q[1].k = "audio" THEN <<[k |-> "audio", id |-> q[1].id]>>
                ELSE <<[k |-> "terminate", id |-> 0]>>)

WaiterItem(w) == IF w.k = "audio" THEN <<AudioItem(w.id)>> ELSE CloseSends
RECURSIVE WaiterItems(_)
WaiterItems(q) == IF q = <<>> THEN <<>> ELSE WaiterItem(q[1]) \o WaiterItems(Tail(q))

\* ------------------------------------------------- this._bufferIterator
\* writableIterator() of ../utils: a first-in first-out buffer between the
\* socket handlers and the consumer of receiveEvents().  push(e) appends e;
\* cancel() marks the end of the sequence behind what is already buffered,
\* once; the consumer takes from the front and finishes at the mark, so
\* what is pushed behind the mark is never yielded.
DoneMarker == [type |-> "<done>", transcript |-> Undefined]
IterPush(q, events) == q \o events
IterCancel(q) == IF cancelled THEN q ELSE Append(q, DoneMarker)

\* What the consumer may still be yielded: the buffer up to the mark.
RECURSIVE BeforeDone(_)
BeforeDone(q) ==
    IF q = <<>> \/ q[1] = DoneMarker THEN <<>> ELSE <<q[1]>> \o BeforeDone(Tail(q))

\* A variant of the consumer's step that takes the newest buffered event.
Pull_TakesNewest ==
    /\ ~consumerDone
    /\ queue # <<>>
    /\ IF queue[Len(queue)] = DoneMarker
       THEN consumerDone' = TRUE /\ delivered' = delivered
       ELSE delivered' = Append(delivered, queue[Len(queue)]) /\ UNCHANGED consumerDone
    /\ queue' = SubSeq(queue, 1, Len(queue) - 1)
    /\ UNCHANGED <<wsState, wsErrored, connectionPromise, waiters, sent, audio,
                   closePc, closeWs, pushed, cancelled, nMsgs, termMark, pipeVars, handlerVars, ctorVars>>

\* receiveEvents(): `yield* this._bufferIterator` hands the consumer the
\* next buffered event, or ends at the mark.
Pull ==
    /\ ~consumerDone
    /\ queue # <<>>
    /\ IF Head(queue) = DoneMarker
       THEN consumerDone' = TRUE /\ delivered' = delivered
       ELSE delivered' = Append(delivered, Head(queue)) /\ UNCHANGED consumerDone
    /\ queue' = Tail(queue)
    /\ UNCHANGED <<wsState, wsErrored, connectionPromise, waiters, sent, audio,
                   closePc, closeWs, pushed, cancelled, nMsgs, termMark, pipeVars, handlerVars, ctorVars>>

\* ------------------------------------------------- the 'message' handler
\* Variants of the handler with a slip in it, used to test the properties
\* below: one forwards the Termination message as an event, one lacks the
\* `if (message.transcript)` test.
OnMessage_ForwardsTermination(m) ==
    IF m.type = "Turn" THEN
        IF TruthyFlag(m.turn_is_formatted)
        THEN IF TruthyString(m.transcript)
             THEN <<STTEvent("stt_output", m.transcript)>>
             ELSE <<>>
        ELSE <<STTEvent("stt_chunk", m.transcript)>>
    ELSE IF m.type = "Termination" THEN <<STTEvent("termination", Undefined)>>
    ELSE <<>>

OnMessage_NoTranscriptTest(m) ==
    IF m.type = "Turn" THEN
        IF TruthyFlag(m.turn_is_formatted)
        THEN <<STTEvent("stt_output", m.transcript)>>
        ELSE <<STTEvent("stt_chunk", m.transcript)>>
    ELSE <<>>

\* A variant that tests the transcript of an unformatted Turn as well and
\* pushes no stt_chunk for an empty one.
OnMessage_SkipsEmptyChunk(m) ==
    IF m.type = "Turn" /\ TruthyString(m.transcript) THEN
        IF TruthyFlag(m.turn_is_formatted)
        THEN <<STTEvent("stt_output", m.transcript)>>
        ELSE <<STTEvent("stt_chunk", m.transcript)>>
    ELSE <<>>

\* The events the handler pushes to this._bufferIterator for message m.
OnMessage(m) ==
    IF m.type = "Unparseable" THEN <<>>
    ELSE IF m.type = "Begin" THEN <<>>
    ELSE IF m.type = "Turn" THEN
        IF TruthyFlag(m.turn_is_formatted)
        THEN IF TruthyString(m.transcript)
             THEN <<STTEvent("stt_output", m.transcript)>>
             ELSE <<>>
        ELSE <<STTEvent("stt_chunk", m.transcript)>>
    ELSE IF m.type = "Termination" THEN <<>>
    ELSE IF m.type = "Error" THEN <<>>
    ELSE <<>>

\* A variant of the 'message' step that stops listening once terminate has
\* been sent on the socket.
WsMessage_DeafAfterTerminate(s, m) ==
    /\ wsState[s] \in {"OPEN", "CLOSING"}
    /\ ~wsErrored[s]
    /\ nMsgs < MaxMsgs
    /\ pushed' = IF termMark[s] # -1 THEN pushed ELSE pushed \o OnMessage(m)
    /\ queue' = IF termMark[s] # -1 THEN queue ELSE IterPush(queue, OnMessage(m))
    /\ nMsgs' = nMsgs + 1
    /\ UNCHANGED <<wsState, wsErrored, connectionPromise, waiters, sent, audio,
                   closePc, closeWs, cancelled, termMark>>
    /\ UNCHANGED <<consumerVars, pipeVars, handlerVars, ctorVars>>

\* ws 'message': the vendor delivers m on socket s.  Messages arrive while
\* the socket is open, and after ws.close() until the closing handshake ends.
WsMessage(s, m) ==
    /\ wsState[s] \in {"OPEN", "CLOSING"}
    /\ ~wsErrored[s]
    /\ nMsgs < MaxMsgs
    /\ pushed' = pushed \o OnMessage(m)
    /\ queue' = IterPush(queue, OnMessage(m))
    /\ nMsgs' = nMsgs + 1
    /\ UNCHANGED <<wsState, wsErrored, connectionPromise, waiters, sent, audio,
                   closePc, closeWs, cancelled, termMark>>
    /\ UNCHANGED <<consumerVars, pipeVars, handlerVars, ctorVars>>

\* ---------------------------------------------------- socket life cycle
\* ws 'open': resolve(ws); the continuations awaiting the promise resume in
\* order: sendAudio's conn.send(buffer), close()'s ws.send(terminate).
WsOpen(s) ==
    /\ wsState[s] = "CONNECTING"
    /\ wsState' = [wsState EXCEPT ![s] = "OPEN"]
    /\ connectionPromise' = Promise(s, "resolved")
    /\ sent' = [sent EXCEPT ![s] = @ \o WaiterItems(waiters)]
    /\ audio' = [f \in Frames |->
                    IF AudioItem(f) \in Range(waiters) THEN "sent" ELSE audio[f]]
    /\ closePc' = [c \in CloseCalls |->
                    IF CloseWaiter(c) \in Range(waiters) THEN "grace" ELSE closePc[c]]
    /\ closeWs' = [c \in CloseCalls |->
                    IF CloseWaiter(c) \in Range(waiters) THEN s ELSE closeWs[c]]
    /\ termMark' = IF TerminateItem \in Range(WaiterItems(waiters))
                   THEN MarkTerminate(s) ELSE termMark
    /\ waiters' = <<>>
    /\ UNCHANGED <<wsErrored, pushed, cancelled, nMsgs>>
    /\ UNCHANGED <<queue, consumerVars, pipeVars, handlerVars, ctorVars>>

\* A variant of the 'error' handler that does not reject the promise: the
\* sendAudio() and close() calls awaiting it are left waiting.
WsError_NoReject(s) ==
    /\ wsState[s] \in {"CONNECTING", "OPEN"}
    /\ wsState' = [wsState EXCEPT ![s] = "CLOSING"]
    /\ wsErrored' = [wsErrored EXCEPT ![s] = TRUE]
    /\ cancelled' = TRUE
    /\ queue' = IterCancel(queue)
    /\ UNCHANGED <<connectionPromise, audio, closePc, waiters>>
    /\ UNCHANGED <<sent, closeWs, pushed, nMsgs, termMark>>
    /\ UNCHANGED <<consumerVars, pipeVars, handlerVars, ctorVars>>

\* ws 'error': this._bufferIterator.cancel(); reject(error).  Rejecting a
\* pending promise makes every awaiting sendAudio() and close() throw;
\* rejecting a resolved one does nothing.  The socket then closes.
WsError(s) ==
    /\ wsState[s] \in {"CONNECTING", "OPEN"}
    /\ wsState' = [wsState EXCEPT ![s] = "CLOSING"]
    /\ wsErrored' = [wsErrored EXCEPT ![s] = TRUE]
    /\ cancelled' = TRUE
    /\ queue' = IterCancel(queue)
    /\ IF connectionPromise = Promise(s, "pending")
       THEN /\ connectionPromise' = Promise(s, "rejected")
            /\ audio' = [f \in Frames |->
                    IF AudioItem(f) \in Range(waiters) THEN "rejected" ELSE audio[f]]
            /\ closePc' = [c \in CloseCalls |->
                    IF CloseWaiter(c) \in Range(waiters) THEN "threw" ELSE closePc[c]]
            /\ waiters' = <<>>
       ELSE UNCHANGED <<connectionPromise, audio, closePc, waiters>>
    /\ UNCHANGED <<sent, closeWs, pushed, nMsgs, termMark>>
    /\ UNCHANGED <<consumerVars, pipeVars, handlerVars, ctorVars>>

\* ws 'close': this._connectionPromise = null.  An open socket closes when
\* the vendor ends the connection, a closing one when the handshake ends.
WsClose(s) ==
    /\ wsState[s] \in {"OPEN", "CLOSING"}
    /\ wsState' = [wsState EXCEPT ![s] = "CLOSED"]
    /\ connectionPromise' = NullPromise
    /\ UNCHANGED <<wsErrored, waiters, sent, audio, closePc, closeWs, pushed,
                   cancelled, nMsgs, termMark>>
    /\ UNCHANGED <<queue, consumerVars, pipeVars, handlerVars, ctorVars>>

\* ------------------------------------------------------------ sendAudio
\* A variant of sendAudio whose getter does not return the promise of a
\* connection that is still opening, and constructs another socket instead.
SendAudio_NoPendingReuse(f) ==
    /\ audio[f] = "idle"
    /\ \A g \in 1..(f - 1) : audio[g] # "idle"
    /\ NumCalls < MaxCalls
    /\ CASE connectionPromise.st \in {"null", "pending"} ->
              /\ HasFreshSocket
              /\ wsState' = [wsState EXCEPT ![FreshSocket] = "CONNECTING"]
              /\ connectionPromise' = Promise(FreshSocket, "pending")
              /\ waiters' = Append(waiters, AudioItem(f))
              /\ audio' = [audio EXCEPT ![f] = "awaiting"]
              /\ UNCHANGED sent
         [] connectionPromise.st = "resolved" ->
              /\ IF wsState[connectionPromise.ws] = "OPEN"
                 THEN /\ sent' = [sent EXCEPT ![connectionPromise.ws] = Append(@, AudioItem(f))]
                      /\ audio' = [audio EXCEPT ![f] = "sent"]
                 ELSE /\ audio' = [audio EXCEPT ![f] = "dropped"]
                      /\ UNCHANGED sent
              /\ UNCHANGED <<wsState, connectionPromise, waiters>>
         [] connectionPromise.st = "rejected" ->
              /\ audio' = [audio EXCEPT ![f] = "rejected"]
              /\ UNCHANGED <<wsState, connectionPromise, waiters, sent>>
    /\ UNCHANGED <<wsErrored, closePc, closeWs, pushed, cancelled, nMsgs,
                   termMark>>
    /\ UNCHANGED <<queue, consumerVars, pipeVars, handlerVars, ctorVars>>

\* sendAudio(buffer) for the f-th frame: const conn = await this._connection;
\* conn.send(buffer).  The getter constructs a socket when the promise is
\* null.  ws.send throws only on a socket that is still connecting, which
\* the awaited promise never yields; on a socket that is closing it drops
\* the data without an error (no callback is given).
SendAudio(f) ==
    /\ audio[f] = "idle"
    /\ \A g \in 1..(f - 1) : audio[g] # "idle"
    /\ NumCalls < MaxCalls
    /\ CASE connectionPromise.st = "null" ->
              /\ HasFreshSocket
              /\ wsState' = [wsState EXCEPT ![FreshSocket] = "CONNECTING"]
              /\ connectionPromise' = Promise(FreshSocket, "pending")
              /\ waiters' = Append(waiters, AudioItem(f))
              /\ audio' = [audio EXCEPT ![f] = "awaiting"]
              /\ UNCHANGED sent
         [] connectionPromise.st = "pending" ->
              /\ waiters' = Append(waiters, AudioItem(f))
              /\ audio' = [audio EXCEPT ![f] = "awaiting"]
              /\ UNCHANGED <<wsState, connectionPromise, sent>>
         [] connectionPromise.st = "resolved" ->
              /\ IF wsState[connectionPromise.ws] = "OPEN"
                 THEN /\ sent' = [sent EXCEPT ![connectionPromise.ws] = Append(@, AudioItem(f))]
                      /\ audio' = [audio EXCEPT ![f] = "sent"]
                 ELSE /\ audio' = [audio EXCEPT ![f] = "dropped"]
                      /\ UNCHANGED sent
              /\ UNCHANGED <<wsState, connectionPromise, waiters>>
         [] connectionPromise.st = "rejected" ->
              /\ audio' = [audio EXCEPT ![f] = "rejected"]
              /\ UNCHANGED <<wsState, connectionPromise, waiters, sent>>
    /\ UNCHANGED <<wsErrored, closePc, closeWs, pushed, cancelled, nMsgs,
                   termMark>>
    /\ UNCHANGED <<queue, consumerVars, pipeVars, handlerVars, ctorVars>>

\* ---------------------------------------------------------------- close
\* A variant of close() that awaits this._connection (the getter) instead of
\* testing this._connectionPromise, and so opens a connection when there is
\* none.
CloseCall_UsesGetter(c) ==
    /\ closePc[c] = "idle"
    /\ \A d \in 1..(c - 1) : closePc[d] # "idle"
    /\ NumCalls < MaxCalls
    /\ CASE connectionPromise.st = "null" ->
              /\ HasFreshSocket
              /\ wsState' = [wsState EXCEPT ![FreshSocket] = "CONNECTING"]
              /\ connectionPromise' = Promise(FreshSocket, "pending")
              /\ waiters' = Append(waiters, CloseWaiter(c))
              /\ closePc' = [closePc EXCEPT ![c] = "awaiting"]
              /\ UNCHANGED <<sent, closeWs, termMark>>
         [] connectionPromise.st = "pending" ->
              /\ waiters' = Append(waiters, CloseWaiter(c))
              /\ closePc' = [closePc EXCEPT ![c] = "awaiting"]
              /\ UNCHANGED <<wsState, connectionPromise, sent, closeWs, termMark>>
         [] connectionPromise.st = "resolved" ->
              /\ closeWs' = [closeWs EXCEPT ![c] = connectionPromise.ws]
              /\ IF wsState[connectionPromise.ws] = "OPEN"
                 THEN /\ sent' = [sent EXCEPT ![connectionPromise.ws] = @ \o CloseSends]
                      /\ termMark' = MarkTerminate(connectionPromise.ws)
                      /\ closePc' = [closePc EXCEPT ![c] = "grace"]
                 ELSE /\ closePc' = [closePc EXCEPT ![c] = "grace"]
                      /\ UNCHANGED <<sent, termMark>>
              /\ UNCHANGED <<wsState, connectionPromise, waiters>>
         [] connectionPromise.st = "rejected" ->
              /\ closePc' = [closePc EXCEPT ![c] = "threw"]
              /\ UNCHANGED <<wsState, connectionPromise, waiters, sent, closeWs, termMark>>
    /\ UNCHANGED <<wsErrored, audio, pushed, cancelled, nMsgs>>
    /\ UNCHANGED <<queue, consumerVars, pipeVars, handlerVars, ctorVars>>

\* close(), up to its first real suspension: nothing when the promise is
\* null; otherwise await the promise, ws.send(terminate_session) and start
\* the 100 ms timer.  The socket the await yields has opened, so ws.send
\* does not throw and the catch block is never entered; on a socket that is
\* already closing the terminate message is dropped.
CloseCall(c) ==
    /\ closePc[c] = "idle"
    /\ \A d \in 1..(c - 1) : closePc[d] # "idle"
    /\ NumCalls < MaxCalls
    /\ CASE connectionPromise.st = "null" ->
              /\ closePc' = [closePc EXCEPT ![c] = "done"]
              /\ UNCHANGED <<waiters, sent, closeWs, termMark>>
         [] connectionPromise.st = "pending" ->
              /\ waiters' = Append(waiters, CloseWaiter(c))
              /\ closePc' = [closePc EXCEPT ![c] = "awaiting"]
              /\ UNCHANGED <<sent, closeWs, termMark>>
         [] connectionPromise.st = "resolved" ->
              /\ closeWs' = [closeWs EXCEPT ![c] = connectionPromise.ws]
              /\ IF wsState[connectionPromise.ws] = "OPEN"
                 THEN /\ sent' = [sent EXCEPT ![connectionPromise.ws] = @ \o CloseSends]
                      /\ termMark' = IF TerminateItem \in Range(CloseSends)
                                     THEN MarkTerminate(connectionPromise.ws)
                                     ELSE termMark
                      /\ closePc' = [closePc EXCEPT ![c] = "grace"]
                 ELSE /\ closePc' = [closePc EXCEPT ![c] = "grace"]
                      /\ UNCHANGED <<sent, termMark>>
              /\ UNCHANGED waiters
         [] connectionPromise.st = "rejected" ->
              /\ closePc' = [closePc EXCEPT ![c] = "threw"]
              /\ UNCHANGED <<waiters, sent, closeWs, termMark>>
    /\ UNCHANGED <<wsState, wsErrored, connectionPromise, audio, pushed, cancelled,
                   nMsgs>>
    /\ UNCHANGED <<queue, consumerVars, pipeVars, handlerVars, ctorVars>>

\* The 100 ms timer of close() fires: ws.close().  Closing a socket that is
\* already closing or closed does nothing.
CloseTimer(c) ==
    /\ closePc[c] = "grace"
    /\ closePc' = [closePc EXCEPT ![c] = "done"]
    /\ wsState' = [wsState EXCEPT ![closeWs[c]] = IF @ = "OPEN" THEN "CLOSING" ELSE @]
    /\ UNCHANGED <<wsErrored, connectionPromise, waiters, sent, audio, closeWs,
                   pushed, cancelled, nMsgs, termMark>>
    /\ UNCHANGED <<queue, consumerVars, pipeVars, handlerVars, ctorVars>>

\* ------------------------------------------------------- specification
Next ==
    \/ \E f \in Frames : SendAudio(f)
    \/ \E c \in CloseCalls : CloseCall(c)
    \/ \E c \in CloseCalls : CloseTimer(c)
    \/ \E s \in Sockets : WsOpen(s)
    \/ \E s \in Sockets, m \in Messages : WsMessage(s, m)
    \/ \E s \in Sockets : WsError(s)
    \/ \E s \in Sockets : WsClose(s)

Spec == Init /\ [][Next]_vars

\* The adapter together with a consumer iterating receiveEvents().
NextConsume ==
    \/ Next
    \/ Pull

SpecConsume == Init /\ [][NextConsume]_vars

\* ------------------------------------------------ the three-stage pipeline
\* compose(sttStream, agentStream, ttsStream) of
\* src/infrastructure/simple-deploy.md.  Each generator takes the events of
\* the one before it in order and yields its own.  Generators are lazy: one
\* runs only while the generator after it is waiting for its next event
\* (the client loop at the end always is), so at most one event is ever
\* waiting between two stages.
\* An event is its type and, standing for its payload, the number of the
\* turn it belongs to: the n-th stt_output closes turn n.
PipeEvent(kind, turn) == [type |-> kind, turn |-> turn]

\* The number of events of the given kind in q.
NumType(q, kind) == Cardinality({i \in 1..Len(q) : q[i].type = kind})

\* The number of final transcripts in q: the turn the agent works on.
TurnOf(q) == NumType(q, "stt_output")

\* The agent's conversation memory: when a response has ended the turn's
\* transcript and the response are appended, and only the newest
\* MaxMessages messages are kept (older ones are summarized away).
HistoryEntry(role, turn) == [role |-> role, turn |-> turn]
LastN(h, n) == IF Len(h) <= n THEN h ELSE SubSeq(h, Len(h) - n + 1, Len(h))
HistoryAfterTurn_KeepsOldest(h, turn) ==
    SubSeq(h \o <<HistoryEntry("user", turn), HistoryEntry("assistant", turn)>>,
           1, IF Len(h) + 2 <= MaxMessages THEN Len(h) + 2 ELSE MaxMessages)
HistoryAfterTurn(h, turn) ==
    LastN(h \o <<HistoryEntry("user", turn), HistoryEntry("assistant", turn)>>,
          MaxMessages)

\* ttsStream is at `for await (const event of eventStream)` with nothing
\* left to take, and agentStream likewise.
TtsAwaitsAgent == ttsPc = "next" /\ ttsIn = Len(agentOut)
AgentAwaitsStt == agentPc = "next" /\ agentIn = Len(upstream) /\ TtsAwaitsAgent

\* sttStream: `yield event`, an stt_chunk or an stt_output of the adapter.
SttYield(kind) ==
    /\ AgentAwaitsStt
    /\ Len(upstream) < MaxUpstream
    /\ upstream' = Append(upstream, PipeEvent(kind, TurnOf(upstream) + 1))
    /\ UNCHANGED <<agentPc, agentIn, agentOut, ttsPc, ttsIn, ttsOut>>
    /\ UNCHANGED <<ctorVars, handlerVars, adapterVars, consumerVars, history>>

\* Variants of agentStream's steps: one that forwards final transcripts
\* only, one that goes on yielding response messages after the response has
\* ended, one that does not leave the response loop on agent_end.
AgentPass_OutputsOnly ==
    /\ TtsAwaitsAgent
    /\ agentPc = "next"
    /\ agentIn < Len(upstream)
    /\ agentIn' = agentIn + 1
    /\ agentOut' = IF upstream[agentIn + 1].type = "stt_output"
                   THEN Append(agentOut, upstream[agentIn + 1]) ELSE agentOut
    /\ agentPc' = IF upstream[agentIn + 1].type = "stt_output" THEN "streaming" ELSE "next"
    /\ UNCHANGED <<upstream, ttsPc, ttsIn, ttsOut>>
    /\ UNCHANGED <<ctorVars, handlerVars, adapterVars, consumerVars, history>>

AgentChunk_AfterEnd ==
    /\ TtsAwaitsAgent
    /\ agentPc \in {"streaming", "next"}
    /\ TurnOf(agentOut) > 0
    /\ NumType(agentOut, "agent_chunk") < MaxChunks
    /\ agentOut' = Append(agentOut, PipeEvent("agent_chunk", TurnOf(agentOut)))
    /\ UNCHANGED <<upstream, agentPc, agentIn, ttsPc, ttsIn, ttsOut>>
    /\ UNCHANGED <<ctorVars, handlerVars, adapterVars, consumerVars, history>>

AgentEnd_StaysInLoop ==
    /\ TtsAwaitsAgent
    /\ agentPc = "streaming"
    /\ agentOut' = Append(agentOut, PipeEvent("agent_end", TurnOf(agentOut)))
    /\ UNCHANGED <<upstream, agentPc, agentIn, ttsPc, ttsIn, ttsOut>>
    /\ history' = HistoryAfterTurn(history, TurnOf(agentOut))
    /\ UNCHANGED <<ctorVars, handlerVars, adapterVars, consumerVars>>

\* agentStream: take the next upstream event and `yield event`; on an
\* stt_output go on to `await agent.stream(event.transcript)`.
AgentPass ==
    /\ TtsAwaitsAgent
    /\ agentPc = "next"
    /\ agentIn < Len(upstream)
    /\ agentIn' = agentIn + 1
    /\ agentOut' = Append(agentOut, upstream[agentIn + 1])
    /\ agentPc' = IF upstream[agentIn + 1].type = "stt_output" THEN "streaming" ELSE "next"
    /\ UNCHANGED <<upstream, ttsPc, ttsIn, ttsOut>>
    /\ UNCHANGED <<ctorVars, handlerVars, adapterVars, consumerVars, history>>

\* A variant in which a message of an earlier turn's response may still
\* arrive while a later response is streamed.
AgentChunk_AnyTurn ==
    /\ TtsAwaitsAgent
    /\ agentPc = "streaming"
    /\ NumType(agentOut, "agent_chunk") < MaxChunks
    /\ \E n \in 1..TurnOf(agentOut) :
          agentOut' = Append(agentOut, PipeEvent("agent_chunk", n))
    /\ UNCHANGED <<upstream, agentPc, agentIn, ttsPc, ttsIn, ttsOut>>
    /\ UNCHANGED <<ctorVars, handlerVars, adapterVars, consumerVars, history>>

\* agentStream: the response stream has a message: yield an agent_chunk.
AgentChunk ==
    /\ TtsAwaitsAgent
    /\ agentPc = "streaming"
    /\ NumType(agentOut, "agent_chunk") < MaxChunks
    /\ agentOut' = Append(agentOut, PipeEvent("agent_chunk", TurnOf(agentOut)))
    /\ UNCHANGED <<upstream, agentPc, agentIn, ttsPc, ttsIn, ttsOut>>
    /\ UNCHANGED <<ctorVars, handlerVars, adapterVars, consumerVars, history>>

\* agentStream: the response stream is exhausted: yield agent_end and go
\* back to the upstream loop.
AgentEnd ==
    /\ TtsAwaitsAgent
    /\ agentPc = "streaming"
    /\ agentOut' = Append(agentOut, PipeEvent("agent_end", TurnOf(agentOut)))
    /\ agentPc' = "next"
    /\ UNCHANGED <<upstream, agentIn, ttsPc, ttsIn, ttsOut>>
    /\ history' = HistoryAfterTurn(history, TurnOf(agentOut))
    /\ UNCHANGED <<ctorVars, handlerVars, adapterVars, consumerVars>>

\* agentStream: agent.stream() or the response stream throws.  The
\* generator has no try/catch, so the exception ends it.
AgentFail ==
    /\ TtsAwaitsAgent
    /\ agentPc = "streaming"
    /\ agentPc' = "failed"
    /\ UNCHANGED <<upstream, agentIn, agentOut, ttsPc, ttsIn, ttsOut>>
    /\ UNCHANGED <<ctorVars, handlerVars, adapterVars, consumerVars, history>>

\* A variant of ttsStream that also synthesizes on a final transcript.
TtsPass_SynthesizesFinals ==
    /\ ttsPc = "next"
    /\ ttsIn < Len(agentOut)
    /\ ttsIn' = ttsIn + 1
    /\ ttsOut' = Append(ttsOut, agentOut[ttsIn + 1])
    /\ ttsPc' = IF agentOut[ttsIn + 1].type \in {"agent_chunk", "stt_output"}
                THEN "receiving" ELSE "next"
    /\ UNCHANGED <<upstream, agentPc, agentIn, agentOut>>
    /\ UNCHANGED <<ctorVars, handlerVars, adapterVars, consumerVars, history>>

\* ttsStream: take the next event of agentStream and `yield event`; on an
\* agent_chunk go on to `await tts.sendText(event.text)` and the audio loop.
TtsPass ==
    /\ ttsPc = "next"
    /\ ttsIn < Len(agentOut)
    /\ ttsIn' = ttsIn + 1
    /\ ttsOut' = Append(ttsOut, agentOut[ttsIn + 1])
    /\ ttsPc' = IF agentOut[ttsIn + 1].type = "agent_chunk" THEN "receiving" ELSE "next"
    /\ UNCHANGED <<upstream, agentPc, agentIn, agentOut>>
    /\ UNCHANGED <<ctorVars, handlerVars, adapterVars, consumerVars, history>>

\* ttsStream: tts.receiveAudio() has audio: yield a tts_chunk.
TtsAudio ==
    /\ ttsPc = "receiving"
    /\ NumType(ttsOut, "tts_chunk") < MaxAudio
    /\ ttsOut' = Append(ttsOut, PipeEvent("tts_chunk", agentOut[ttsIn].turn))
    /\ UNCHANGED <<upstream, agentPc, agentIn, agentOut, ttsPc, ttsIn>>
    /\ UNCHANGED <<ctorVars, handlerVars, adapterVars, consumerVars, history>>

\* ttsStream: the audio sequence ends: back to the upstream loop.
TtsAudioEnd ==
    /\ ttsPc = "receiving"
    /\ ttsPc' = "next"
    /\ UNCHANGED <<upstream, agentPc, agentIn, agentOut, ttsIn, ttsOut>>
    /\ UNCHANGED <<ctorVars, handlerVars, adapterVars, consumerVars, history>>

\* ttsStream: tts.sendText() or the audio sequence throws, or the upstream
\* generator it iterates has thrown; no try/catch here either.
TtsFail ==
    /\ \/ ttsPc = "receiving"
       \/ ttsPc = "next" /\ ttsIn = Len(agentOut) /\ agentPc = "failed"
    /\ ttsPc' = "failed"
    /\ UNCHANGED <<upstream, agentPc, agentIn, agentOut, ttsIn, ttsOut>>
    /\ UNCHANGED <<ctorVars, handlerVars, adapterVars, consumerVars, history>>

PipeNext ==
    \/ \E kind \in {"stt_chunk", "stt_output"} : SttYield(kind)
    \/ AgentPass
    \/ AgentChunk
    \/ AgentEnd
    \/ AgentFail
    \/ TtsPass
    \/ TtsAudio
    \/ TtsAudioEnd
    \/ TtsFail

PipeSpec == Init /\ [][PipeNext]_vars

\* ------------------------------------------------- the Lambda handler
\* event.routeKey: the three routes of the switch, one other, and absent.
RouteKeys == {"$connect", "$disconnect", "$default", "sendMessage", Undefined}

\* How `await client.send(command)` and the lines after it can go: the call
\* rejects; SecretString is empty or absent; it is not JSON; it is JSON
\* null; it is another falsy JSON value (0, false, ""); it is an object.
FetchOutcomes == {"rejected", "empty", "unparseable", "null", "falsy", "object"}

\* The value of cachedSecrets after the fetch: line 156 assigns the parsed
\* value, and is not reached when an earlier line throws.
CacheAfter_CachesFailure(outcome) == IF outcome = "falsy" THEN "falsy" ELSE "object"
CacheAfter(outcome) ==
    CASE outcome \in {"rejected", "empty", "unparseable"} -> cachedSecrets
      [] outcome = "null" -> "null"
      [] outcome = "falsy" -> "falsy"
      [] outcome = "object" -> "object"

\* getSecrets() throws: client.send rejects, `!response.SecretString`,
\* JSON.parse throws, or Object.entries(null) throws.
LoadFails(outcome) == outcome \in {"rejected", "empty", "unparseable", "null"}

\* `if (cachedSecrets)`.
TruthyCache == cachedSecrets = "object"

\* The switch on routeKey.
RouteResponse_DefaultUnsupported(routeKey) ==
    CASE routeKey = "$connect" -> Response(200, "Connected")
      [] routeKey = "$disconnect" -> Response(200, "Disconnected")
      [] OTHER -> Response(400, "Unsupported route")
RouteResponse(routeKey) ==
    CASE routeKey = "$connect" -> Response(200, "Connected")
      [] routeKey = "$disconnect" -> Response(200, "Disconnected")
      [] routeKey = "$default" -> Response(200, "Message received")
      [] OTHER -> Response(400, "Unsupported route")

\* The catch block of the handler.
OnFailure_Rethrows == Thrown
OnFailure == Response(500, "{\"error\":\"Internal server error\"}")

\* handler(event), up to its first real suspension: getSecrets() returns
\* the cache when it is truthy and the route is answered at once; it throws
\* when SECRETS_ARN is not set; otherwise it calls client.send(command) and
\* waits.  The environment variable keeps the value it is first read with.
Invoke(i, routeKey, arn) ==
    /\ hPc[i] = "idle"
    /\ \A j \in 1..(i - 1) : hPc[j] # "idle"
    /\ hRoute' = [hRoute EXCEPT ![i] = routeKey]
    /\ IF TruthyCache
       THEN /\ hPc' = [hPc EXCEPT ![i] = "done"]
            /\ hLoad' = [hLoad EXCEPT ![i] = "cached"]
            /\ hResp' = [hResp EXCEPT ![i] = RouteResponse(routeKey)]
            /\ UNCHANGED <<secretsArn, fetches>>
       ELSE /\ secretsArn \in {"unread", arn}
            /\ secretsArn' = arn
            /\ IF arn = "unset"
               THEN /\ hPc' = [hPc EXCEPT ![i] = "done"]
                    /\ hLoad' = [hLoad EXCEPT ![i] = "failed"]
                    /\ hResp' = [hResp EXCEPT ![i] = OnFailure]
                    /\ UNCHANGED fetches
               ELSE /\ hPc' = [hPc EXCEPT ![i] = "fetching"]
                    /\ hLoad' = [hLoad EXCEPT ![i] = "loading"]
                    /\ fetches' = fetches + 1
                    /\ UNCHANGED hResp
    /\ UNCHANGED cachedSecrets
    /\ UNCHANGED <<adapterVars, consumerVars, pipeVars, ctorVars>>

\* client.send(command) settles and the invocation runs to its end: the
\* rest of getSecrets(), then the switch, or the catch block.
FetchDone(i, outcome) ==
    /\ hPc[i] = "fetching"
    /\ cachedSecrets' = CacheAfter(outcome)
    /\ hPc' = [hPc EXCEPT ![i] = "done"]
    /\ IF LoadFails(outcome)
       THEN /\ hLoad' = [hLoad EXCEPT ![i] = "failed"]
            /\ hResp' = [hResp EXCEPT ![i] = OnFailure]
       ELSE /\ hLoad' = [hLoad EXCEPT ![i] = "loaded"]
            /\ hResp' = [hResp EXCEPT ![i] = RouteResponse(hRoute[i])]
    /\ UNCHANGED <<secretsArn, hRoute, fetches>>
    /\ UNCHANGED <<adapterVars, consumerVars, pipeVars, ctorVars>>

HandlerNext ==
    \/ \E i \in Invocations, routeKey \in RouteKeys, arn \in {"set", "unset"} :
          Invoke(i, routeKey, arn)
    \/ \E i \in Invocations, outcome \in FetchOutcomes : FetchDone(i, outcome)

HandlerSpec == Init /\ [][HandlerNext]_vars

\* --------------------------------------- the constructor and the getter
\* new AssemblyAISTT(options) and the request the _connection getter makes
\* for the adapter it returned.  The options as TypeScript admits them:
\* each may be absent; apiKey is a string, sampleRate a number, formatTurns
\* a boolean (written "false" / "true" as in the vendor messages).
DefaultSampleRate == 16000

ApiKeyOptions == {Undefined, "", "key-option"}
EnvKeys == {Undefined, "", "key-env"}
SampleRateOptions == {NoRate, 0, 8000, DefaultSampleRate, 44100}
FormatTurnsOptions == {Undefined, "false", "true"}

OptionsGiven ==
    [apiKey : ApiKeyOptions, sampleRate : SampleRateOptions,
     formatTurns : FormatTurnsOptions]

\* JavaScript truthiness of a number that may be absent.
TruthyNumber(n) == n \notin {NoRate, 0}

\* options.apiKey || process.env.ASSEMBLYAI_API_KEY || ""
ApiKeyOf(opts, env) ==
    IF TruthyString(opts.apiKey) THEN opts.apiKey
    ELSE IF TruthyString(env) THEN env
    ELSE ""

\* options.sampleRate || 16000
SampleRateOf(opts) ==
    IF TruthyNumber(opts.sampleRate) THEN opts.sampleRate ELSE DefaultSampleRate

\* options.formatTurns || true
FormatTurnsOf(opts) ==
    IF TruthyFlag(opts.formatTurns) THEN opts.formatTurns = "true" ELSE TRUE

\* if (!this.apiKey) throw ...   (KeyCheckThrows_Never lacks the test.)
KeyCheckThrows_Never(key) == FALSE
KeyCheckThrows(key) == ~TruthyString(key)

\* Number.prototype.toString() and Boolean.prototype.toString() followed by
\* toLowerCase(), for the values above.
NumberToString(n) ==
    CASE n = 0 -> "0"
      [] n = 8000 -> "8000"
      [] n = 16000 -> "16000"
      [] n = 44100 -> "44100"

BooleanToString(b) == IF b THEN "true" ELSE "false"

\* The fields the constructor assigns.
Fields(opts, env) ==
    [apiKey |-> ApiKeyOf(opts, env),
     sampleRate |-> SampleRateOf(opts),
     formatTurns |-> FormatTurnsOf(opts)]

\* The constructor.  The environment variable is read only when the option
\* apiKey is falsy.  When the key test throws, no adapter comes to exist.
Construct(opts, env) ==
    /\ ctorPc = "new"
    /\ options' = Append(options, opts)
    /\ envKey' = IF TruthyString(opts.apiKey) THEN envKey ELSE env
    /\ IF KeyCheckThrows(Fields(opts, env).apiKey)
       THEN ctorPc' = "thrown" /\ UNCHANGED adapter
       ELSE ctorPc' = "constructed" /\ adapter' = Append(adapter, Fields(opts, env))
    /\ UNCHANGED request
    /\ UNCHANGED <<adapterVars, consumerVars, pipeVars, handlerVars>>

\* The first evaluation of the _connection getter: the URL parameters and
\* the Authorization header handed to new WebSocket.
Connect ==
    /\ ctorPc = "constructed"
    /\ request' = Append(request,
                         [sample_rate |-> NumberToString(adapter[1].sampleRate),
                          format_turns |-> BooleanToString(adapter[1].formatTurns),
                          Authorization |-> adapter[1].apiKey])
    /\ ctorPc' = "connected"
    /\ UNCHANGED <<options, envKey, adapter>>
    /\ UNCHANGED <<adapterVars, consumerVars, pipeVars, handlerVars>>

ConstructNext ==
    \/ \E opts \in OptionsGiven, env \in EnvKeys : Construct(opts, env)
    \/ Connect

ConstructSpec == Init /\ [][ConstructNext]_vars

TypeOK ==
    /\ wsState \in [Sockets -> {"NONE", "CONNECTING", "OPEN", "CLOSING", "CLOSED"}]
    /\ connectionPromise.st \in {"null", "pending", "resolved", "rejected"}
    /\ audio \in [Frames -> {"idle", "awaiting", "sent", "dropped", "rejected"}]
    /\ closePc \in [CloseCalls -> {"idle", "awaiting", "grace", "done", "threw"}]
    /\ nMsgs <= MaxMsgs
    /\ Cardinality({s \in Sockets : wsState[s] \in {"CONNECTING", "OPEN", "CLOSING"}}) <= 1
    /\ \A s \in Sockets : wsState[s] \in {"CONNECTING", "OPEN", "CLOSING"}
                            => connectionPromise.ws = s
    /\ consumerDone \in BOOLEAN
    /\ Len(delivered) <= Len(pushed)
    /\ Len(queue) <= Len(pushed) + 1
    /\ agentPc \in {"next", "streaming", "failed"}
    /\ ttsPc \in {"next", "receiving", "failed"}
    /\ agentIn \in 0..Len(upstream)
    /\ ttsIn \in 0..Len(agentOut)
    /\ Len(upstream) <= MaxUpstream
    /\ Len(agentOut) <= Len(upstream) + MaxChunks + TurnOf(upstream)
    /\ Len(ttsOut) <= Len(agentOut) + MaxAudio
    /\ Len(history) <= MaxMessages
    /\ cachedSecrets \in {"null", "falsy", "object"}
    /\ secretsArn \in {"unread", "set", "unset"}
    /\ hPc \in [Invocations -> {"idle", "fetching", "done"}]
    /\ hRoute \in [Invocations -> RouteKeys]
    /\ hLoad \in [Invocations -> {"none", "cached", "loading", "loaded", "failed"}]
    /\ \A i \in Invocations : (hPc[i] = "done") = (hResp[i] # NoResponse)
    /\ fetches \in 0..MaxInvocations
    /\ ctorPc \in {"new", "constructed", "thrown", "connected"}
    /\ Len(options) = (IF ctorPc = "new" THEN 0 ELSE 1)
    /\ \A i \in 1..Len(options) : options[i] \in OptionsGiven
    /\ envKey \in EnvKeys \cup {"unread"}
    /\ Len(adapter) = (IF ctorPc \in {"constructed", "connected"} THEN 1 ELSE 0)
    /\ Len(request) = (IF ctorPc = "connected" THEN 1 ELSE 0)

\* ================================================================ claims
\* Some message step, and the step on which socket s receives m.
MessageStep == \E s \in Sockets, m \in Messages : WsMessage(s, m)

IsFinalTurn(m) == m.type = "Turn" /\ TruthyFlag(m.turn_is_formatted)
IsNonEmptyFinalTurn(m) == IsFinalTurn(m) /\ TruthyString(m.transcript)

TerminateCount(s) == Cardinality({i \in 1..Len(sent[s]) : sent[s][i] = TerminateItem})

\* close() has completed on a connection and that connection's socket has
\* closed.  Both facts are permanent.
SessionClosed ==
    \E c \in CloseCalls :
        closePc[c] = "done" /\ closeWs[c] # 0 /\ wsState[closeWs[c]] = "CLOSED"

\* ---- C1
\* C1: every vendor message appends at most one event to the output
\* sequence, an appended event is an stt_chunk or an stt_output, and a
\* message that is not a Turn (Begin, Termination, anything else) appends
\* nothing.
C1_AtMostOneSttEventPerMessage ==
    [][\A s \in Sockets, m \in Messages :
          WsMessage(s, m) =>
            /\ Len(pushed') \in {Len(pushed), Len(pushed) + 1}
            /\ SubSeq(pushed', 1, Len(pushed)) = pushed
            /\ \A i \in (Len(pushed) + 1)..Len(pushed') :
                  pushed'[i].type \in {"stt_chunk", "stt_output"}
            /\ m.type # "Turn" => pushed' = pushed]_vars

\* C1 witness: two messages have been received and only one produced an event.
C1_Witness == nMsgs = 2 /\ Len(pushed) = 1

\* ---- C2
\* C2 as stated: every finalized (formatted) Turn message, whatever its
\* transcript, adds exactly one stt_output, and nothing else adds one.
C2_OneOutputPerFinalTurn ==
    [][\A s \in Sockets, m \in Messages :
          WsMessage(s, m) =>
            CountType(pushed', "stt_output") =
                CountType(pushed, "stt_output") + (IF IsFinalTurn(m) THEN 1 ELSE 0)]_vars

\* C2 as amended: a formatted Turn message with a non-empty transcript adds
\* exactly one stt_output carrying that transcript; a formatted Turn whose
\* transcript is empty or absent adds no event; no other message and no
\* other step adds an stt_output.
C2_OneOutputPerNonEmptyFinalTurn ==
    [][/\ \A s \in Sockets, m \in Messages :
            WsMessage(s, m) =>
              /\ IsNonEmptyFinalTurn(m) =>
                    pushed' = Append(pushed, STTEvent("stt_output", m.transcript))
              /\ IsFinalTurn(m) /\ ~TruthyString(m.transcript) => pushed' = pushed
              /\ ~IsFinalTurn(m) =>
                    CountType(pushed', "stt_output") = CountType(pushed, "stt_output")
       /\ ~MessageStep =>
            CountType(pushed', "stt_output") = CountType(pushed, "stt_output")]_vars

\* C2 witness: the one message received so far produced an stt_output.
C2_Witness == nMsgs = 1 /\ Len(pushed) = 1 /\ pushed[1].type = "stt_output"

\* ---- C3
\* C3: close() sends terminate_session before it closes the socket, with
\* the timer in between: a close() call that gets past its await on an open
\* socket has transmitted terminate on it, and when the timer of close()
\* closes an open socket, terminate was transmitted on that socket in an
\* earlier step; close() calls ws.close() from nowhere else.
C3_TerminateBeforeSocketClose ==
    [][/\ \A c \in CloseCalls :
            (closePc[c] \in {"idle", "awaiting"} /\ closePc'[c] = "grace"
                /\ wsState'[closeWs'[c]] = "OPEN")
              => TerminateItem \in Range(sent'[closeWs'[c]])
       /\ \A c \in CloseCalls :
            (CloseTimer(c) /\ wsState[closeWs[c]] = "OPEN")
              => TerminateItem \in Range(sent[closeWs[c]])
       /\ \A s \in Sockets :
            (wsState[s] = "OPEN" /\ wsState'[s] = "CLOSING" /\ ~wsErrored'[s])
              => \E c \in CloseCalls : CloseTimer(c) /\ closeWs[c] = s]_vars

\* C3 witness: a close() call has finished and left its socket closing, with
\* terminate transmitted on it and no socket error involved.
C3_Witness ==
    \E c \in CloseCalls :
        /\ closePc[c] = "done" /\ closeWs[c] # 0
        /\ wsState[closeWs[c]] = "CLOSING" /\ ~wsErrored[closeWs[c]]
        /\ TerminateItem \in Range(sent[closeWs[c]])

C5_TerminateSentAtMostOnce == \A s \in Sockets : TerminateCount(s) <= 1

\* ---- C6
\* C6: after close() has transmitted terminate, at most one further
\* stt_output is appended to the output sequence, whatever the vendor sends.
C6_AtMostOneOutputAfterTerminate ==
    \A s \in Sockets :
        termMark[s] # -1 =>
            CountType(SubSeq(pushed, termMark[s] + 1, Len(pushed)), "stt_output") <= 1

\* ---- C7
\* C7: a vendor message of type Error appends an `error` event to the output
\* sequence and ends the sequence.
ErrorMessage == [type |-> "Error", turn_is_formatted |-> Undefined, transcript |-> Undefined]

C7_VendorErrorSurfacedAndFatal ==
    [][\A s \in Sockets :
          WsMessage(s, ErrorMessage) =>
            /\ Len(pushed') = Len(pushed) + 1
            /\ pushed'[Len(pushed')].type = "error"
            /\ cancelled']_vars

\* ---- C8
\* A message that fails to parse or matches no recognized shape: one whose
\* type is unknown, or a Turn lacking its transcript or its formatted flag.
Malformed(m) ==
    \/ m.type \in {"Unparseable", "Other"}
    \/ m.type = "Turn" /\ (m.transcript = Undefined \/ m.turn_is_formatted = Undefined)

\* C8: a malformed vendor message is skipped with no effect: no event is
\* appended, the connection stays as it is and the output is not ended.
C8_MalformedMessageSkipped ==
    [][\A s \in Sockets, m \in Messages :
          (WsMessage(s, m) /\ Malformed(m)) =>
            pushed' = pushed /\ wsState' = wsState /\ cancelled' = cancelled]_vars

\* ---- C9
\* C9: a sendAudio call made after close() has completed and the socket has
\* closed is rejected: its frame is neither dropped nor left waiting to be
\* transmitted on a newly opened connection.
C9_SendAudioAfterCloseRejected ==
    [][\A f \in Frames :
          (SendAudio(f) /\ SessionClosed) => audio'[f] = "rejected"]_vars

\* ---- C10
\* C10: Closed is terminal: once close() has completed and the socket has
\* closed, no step leaves a socket connecting or open and no step appends an
\* event.
C10_ClosedIsTerminal ==
    [][SessionClosed =>
          /\ \A s \in Sockets : wsState'[s] \notin {"CONNECTING", "OPEN"}
          /\ pushed' = pushed]_vars

\* ---- C11
\* The frames transmitted on socket s, in the order of transmission.
FramesSent(s) == SelectSeq(sent[s], LAMBDA x : x.k = "audio")

\* C11: a socket 'error' is fatal to the adapter: it ends the output
\* sequence, and from then on no step constructs a socket and no step
\* transmits an audio frame (a later sendAudio fails instead).
C11_SocketErrorIsFatal ==
    [][/\ \A s \in Sockets : WsError(s) => cancelled'
       /\ cancelled =>
            /\ \A s \in Sockets : wsState[s] = "NONE" => wsState'[s] = "NONE"
            /\ \A s \in Sockets : FramesSent(s)' = FramesSent(s)]_vars

\* ---- C12
\* C12: frames are transmitted in the order sendAudio was called, those
\* submitted while the connection was opening included: on each socket the
\* frames are in call order, a frame transmitted on an earlier socket was
\* submitted before every frame transmitted on a later one, every frame
\* still waiting for the connection was submitted after every frame already
\* transmitted, the waiting frames are in call order, and no frame is
\* transmitted twice.
C12_FramesSentInCallOrder ==
    /\ \A s \in Sockets : \A i, j \in 1..Len(FramesSent(s)) :
          i < j => FramesSent(s)[i].id < FramesSent(s)[j].id
    /\ \A s, r \in Sockets : \A i \in 1..Len(FramesSent(s)), j \in 1..Len(FramesSent(r)) :
          s < r => FramesSent(s)[i].id < FramesSent(r)[j].id
    /\ \A s \in Sockets : \A i \in 1..Len(FramesSent(s)), j \in 1..Len(waiters) :
          waiters[j].k = "audio" => FramesSent(s)[i].id < waiters[j].id
    /\ \A i, j \in 1..Len(waiters) :
          (i < j /\ waiters[i].k = "audio" /\ waiters[j].k = "audio")
            => waiters[i].id < waiters[j].id
    /\ \A f \in Frames :
          Cardinality({<<s, i>> \in Sockets \X (1..MaxCalls) :
                          i <= Len(sent[s]) /\ sent[s][i] = AudioItem(f)})
            = (IF audio[f] = "sent" THEN 1 ELSE 0)

\* C12 witness: two frames have been transmitted on one socket.
C12_Witness ==
    \E s \in Sockets :
        /\ Len(FramesSent(s)) = 2
        /\ audio[1] = "sent" /\ audio[2] = "sent"

\* ---- C13
\* C13: the output of receiveEvents() is first-in first-out: what has been
\* yielded to the consumer, followed by what is buffered for it, is at every
\* moment an initial part of the events produced from the vendor messages,
\* in the order they were produced; so every event is yielded in that order
\* and once, however the consumer's steps interleave with message arrival.
C13_OutputIsFifo ==
    /\ Len(delivered) + Len(BeforeDone(queue)) <= Len(pushed)
    /\ delivered \o BeforeDone(queue)
          = SubSeq(pushed, 1, Len(delivered) + Len(BeforeDone(queue)))

\* C13 witness: two messages have produced two different events and the
\* consumer has been yielded both.
C13_Witness ==
    /\ Len(delivered) = 2 /\ delivered[1] # delivered[2]
    /\ delivered = pushed /\ nMsgs = 2

\* ---- C14
\* C14: no event is lost or duplicated: every event produced from a vendor
\* message, on whichever connection, has been yielded to the consumer or is
\* still going to be, once.
C14_NoEventLost == delivered \o BeforeDone(queue) = pushed

\* ---- C15
\* Nothing is in progress: no socket is connecting, open or closing, no call
\* is waiting, and the buffer is drained.
Quiescent ==
    /\ \A s \in Sockets : wsState[s] \in {"NONE", "CLOSED"}
    /\ \A f \in Frames : audio[f] # "awaiting"
    /\ \A c \in CloseCalls : closePc[c] \notin {"awaiting", "grace"}
    /\ queue = <<>>

\* close() has run to its end on a connection that was open (terminate was
\* transmitted on it), and that connection has closed without an error.
ClosedCleanly ==
    \E c \in CloseCalls :
        /\ closePc[c] = "done" /\ closeWs[c] # 0
        /\ wsState[closeWs[c]] = "CLOSED" /\ ~wsErrored[closeWs[c]]
        /\ TerminateItem \in Range(sent[closeWs[c]])

\* C15: cancellation completes: when close() has closed the connection and
\* nothing is in progress any more, the receiveEvents() sequence has ended
\* and its consumer has finished.
C15_CloseEndsOutput == (ClosedCleanly /\ Quiescent) => consumerDone

\* ---- C16
NoAudioSupplied == \A f \in Frames : audio[f] = "idle"

LiveSockets == {s \in Sockets : wsState[s] \in {"CONNECTING", "OPEN"}}

\* C17: at most one socket is connecting or open at any time, and every
\* sendAudio call that is waiting for the connection waits for that one
\* socket, which is the one the adapter's promise is for.
C17_AtMostOneConnection ==
    /\ Cardinality(LiveSockets) <= 1
    /\ \A s \in LiveSockets : connectionPromise.ws = s
    /\ \A f \in Frames :
          audio[f] = "awaiting" =>
            /\ AudioItem(f) \in Range(waiters)
            /\ connectionPromise.st = "pending"
            /\ wsState[connectionPromise.ws] = "CONNECTING"

\* C17 witness: two sendAudio calls wait for the one socket that is opening,
\* the only socket constructed so far.
C17_Witness ==
    /\ audio[1] = "awaiting" /\ audio[2] = "awaiting"
    /\ wsState[1] = "CONNECTING"
    /\ \A s \in Sockets : s # 1 => wsState[s] = "NONE"

\* ---- C18
\* C18: pass-through: what agentStream has yielded, the events it injected
\* (agent_chunk, agent_end) left out, is exactly the events it has taken
\* from sttStream, unchanged and in order; and what ttsStream has yielded,
\* its tts_chunk events left out, is exactly the events it has taken from
\* agentStream, unchanged and in order.
C18_PassThrough ==
    /\ SelectSeq(agentOut, LAMBDA e : e.type \notin {"agent_chunk", "agent_end"})
          = SubSeq(upstream, 1, agentIn)
    /\ SelectSeq(ttsOut, LAMBDA e : e.type # "tts_chunk")
          = SubSeq(agentOut, 1, ttsIn)

\* C18 witness: the pipeline has yielded a partial transcript, the final
\* transcript, an agent_chunk, its audio and the agent_end, i.e. upstream
\* events with injected events of both stages in between.
C18_Witness ==
    /\ Len(ttsOut) = 5
    /\ ttsOut[1].type = "stt_chunk" /\ ttsOut[2].type = "stt_output"
    /\ ttsOut[3].type = "agent_chunk" /\ ttsOut[4].type = "tts_chunk"
    /\ ttsOut[5].type = "agent_end"

\* ---- C19
\* C19: in the output of the composed pipeline every agent_chunk (and
\* tool_call, of which the agent stage yields none) comes after the
\* stt_output of its turn and before the agent_end of its turn.
C19_AgentEventsWithinTurn ==
    \A i \in 1..Len(ttsOut) :
        ttsOut[i].type \in {"agent_chunk", "tool_call"} =>
            /\ \E j \in 1..(i - 1) : ttsOut[j] = PipeEvent("stt_output", ttsOut[i].turn)
            /\ \A j \in 1..(i - 1) : ttsOut[j] # PipeEvent("agent_end", ttsOut[i].turn)

\* C19 witness: the output holds the agent_chunk events of two turns, the
\* first turn's agent_end lying between them.
C19_Witness ==
    \E i, j, k \in 1..Len(ttsOut) :
        /\ i < j /\ j < k
        /\ ttsOut[i] = PipeEvent("agent_chunk", 1)
        /\ ttsOut[j] = PipeEvent("agent_end", 1)
        /\ ttsOut[k] = PipeEvent("agent_chunk", 2)

\* ---- C20
\* C20: the output of the composed pipeline holds at most one agent_end per
\* turn, each after the stt_output of its turn, and no initial part of it
\* holds more agent_end than stt_output events.
C20_AtMostOneAgentEndPerTurn ==
    /\ \A i, j \in 1..Len(ttsOut) :
          (ttsOut[i].type = "agent_end" /\ ttsOut[j] = ttsOut[i]) => i = j
    /\ \A i \in 1..Len(ttsOut) :
          ttsOut[i].type = "agent_end" =>
            \E j \in 1..(i - 1) : ttsOut[j] = PipeEvent("stt_output", ttsOut[i].turn)
    /\ \A n \in 0..Len(ttsOut) :
          NumType(SubSeq(ttsOut, 1, n), "agent_end")
              <= NumType(SubSeq(ttsOut, 1, n), "stt_output")

\* C20 witness: two turns have come through and ended in the output.
C20_Witness ==
    /\ NumType(ttsOut, "agent_end") = 2
    /\ NumType(ttsOut, "stt_output") = 2

\* ---- C21
\* C21: in the output of the composed pipeline every tts_chunk comes after
\* an agent_chunk of its turn.
C21_AudioAfterAgentChunk ==
    \A i \in 1..Len(ttsOut) :
        ttsOut[i].type = "tts_chunk" =>
            \E j \in 1..(i - 1) : ttsOut[j] = PipeEvent("agent_chunk", ttsOut[i].turn)

\* C21 witness: audio of the second turn is in the output, after audio of
\* the first.
C21_Witness ==
    \E i, j \in 1..Len(ttsOut) :
        /\ i < j
        /\ ttsOut[i] = PipeEvent("tts_chunk", 1)
        /\ ttsOut[j] = PipeEvent("tts_chunk", 2)

\* ---- C22
AgentEvent(e) == e.type \in {"agent_chunk", "agent_end", "tool_call"}

C23_AgentFailureScopedToTurn ==
    [][AgentFail =>
          /\ agentOut' = Append(agentOut, PipeEvent("error", TurnOf(agentOut)))
          /\ agentPc' = "next"]_vars

\* ---- C24
\* C24: a failure of the synthesizer yields an `error` event for the turn
\* and leaves ttsStream running, so that the events of the next turn still
\* come through.
C24_SynthesisFailureScopedToTurn ==
    [][(TtsFail /\ ttsPc = "receiving") =>
          /\ ttsOut' = Append(ttsOut, PipeEvent("error", agentOut[ttsIn].turn))
          /\ ttsPc' = "next"]_vars

\* ---- C25
\* C25 as stated: the conversation history changes only in the agent_end
\* step, and there only by appending: what it held before is still there,
\* unchanged, in front of what was added.
C25_HistoryAppendOnly ==
    [][/\ ~AgentEnd => history' = history
       /\ AgentEnd =>
            /\ Len(history') > Len(history)
            /\ SubSeq(history', 1, Len(history)) = history]_vars

\* C25 as amended: the history changes only in the agent_end step; that
\* step appends the turn's transcript and response, and it drops entries,
\* oldest first, exactly as far as the cap requires; the entries kept are
\* unchanged and in their order.
C25_HistoryAppendThenTrim ==
    [][/\ ~AgentEnd => history' = history
       /\ AgentEnd =>
            \E k \in 0..Len(history) :
                /\ history' = SubSeq(history, k + 1, Len(history))
                                \o <<HistoryEntry("user", TurnOf(agentOut)),
                                     HistoryEntry("assistant", TurnOf(agentOut))>>
                /\ Len(history') <= MaxMessages
                /\ k > 0 => Len(history') = MaxMessages]_vars

\* C25 witness: the history is at its cap and the first turn's entries have
\* been dropped from it.
C25_Witness ==
    /\ Len(history) = MaxMessages
    /\ history[Len(history)] = HistoryEntry("assistant", 2)
    /\ HistoryEntry("user", 1) \notin Range(history)

\* ---- C26
\* C26: across all invocations of the handler, overlapping ones included,
\* the secret store is fetched at most once.
C26_SecretsFetchedAtMostOnce == fetches <= 1

\* ---- C28
\* getSecrets() returned in invocation i, from the cache or from a load.
SecretsAvailable(i) == hLoad[i] \in {"cached", "loaded"}

\* C28: an invocation in which the secrets were available answers by route
\* key: 200 Connected for $connect, 200 Disconnected for $disconnect, 200
\* Message received for $default, and 400 Unsupported route for every other
\* route key.
C28_RouteKeyDecidesResponse ==
    \A i \in Invocations :
        (hPc[i] = "done" /\ SecretsAvailable(i)) =>
            /\ hRoute[i] = "$connect" =>
                  hResp[i] = [statusCode |-> 200, body |-> "Connected"]
            /\ hRoute[i] = "$disconnect" =>
                  hResp[i] = [statusCode |-> 200, body |-> "Disconnected"]
            /\ hRoute[i] = "$default" =>
                  hResp[i] = [statusCode |-> 200, body |-> "Message received"]
            /\ hRoute[i] \notin {"$connect", "$disconnect", "$default"} =>
                  hResp[i] = [statusCode |-> 400, body |-> "Unsupported route"]

\* C28 witness: one invocation loaded the secrets and answered $default, a
\* later one found them cached and answered an unsupported route.
C28_Witness ==
    /\ hLoad[1] = "loaded" /\ hRoute[1] = "$default" /\ hResp[1].statusCode = 200
    /\ hLoad[2] = "cached" /\ hRoute[2] = "sendMessage" /\ hResp[2].statusCode = 400

\* ---- C29
\* C29: the handler never throws: every invocation that has ended returned
\* a response with status 200, 400 or 500, and one in which getSecrets()
\* failed (SECRETS_ARN unset, store error, empty or unusable secret value)
\* returned status 500 whatever its route key.
C29_HandlerNeverThrows ==
    \A i \in Invocations :
        hPc[i] = "done" =>
            /\ hResp[i].statusCode \in {200, 400, 500}
            /\ hLoad[i] = "failed" => hResp[i].statusCode = 500

\* C29 witness: two invocations in which the load failed, one for $connect
\* and one for an unsupported route, both answered with status 500, each
\* after a fetch of its own that failed.
C29_Witness ==
    /\ hRoute[1] = "$connect" /\ hLoad[1] = "failed" /\ hResp[1].statusCode = 500
    /\ hRoute[2] = "sendMessage" /\ hLoad[2] = "failed" /\ hResp[2].statusCode = 500
    /\ fetches = 2

\* ---- C30
\* getSecrets() fails in invocation i on this step.
LoadFailsNow(i) == hLoad[i] # "failed" /\ hLoad'[i] = "failed"

C31_CloseNeverThrows == \A c \in CloseCalls : closePc[c] # "threw"

\* ---- C32
\* C32: on no socket is an audio frame transmitted after the terminate
\* message, however sendAudio calls interleave with a close() in progress.
C32_NoAudioAfterTerminate ==
    \A s \in Sockets : \A i, j \in 1..Len(sent[s]) :
        (sent[s][i] = TerminateItem /\ i < j) => sent[s][j].k # "audio"

\* ---- C33
\* C33: when a socket fails while it is still connecting, every sendAudio
\* call waiting for that connection is rejected on that step, and the frame
\* of a rejected call has been transmitted on no socket, then or later.
C33_OpenFailureRejectsWaitingSends ==
    [][/\ \A s \in Sockets :
            (wsState[s] = "CONNECTING" /\ wsErrored'[s]) =>
                \A f \in Frames : audio[f] = "awaiting" => audio'[f] = "rejected"
       /\ \A f \in Frames :
            audio[f] = "rejected" =>
                /\ audio'[f] = "rejected"
                /\ \A s \in Sockets : AudioItem(f) \notin Range(sent'[s])]_vars

\* C33 witness: the first socket failed before it opened and the first
\* sendAudio call, which had constructed it and was waiting for it, is
\* rejected; nothing was transmitted on the socket.
C33_Witness ==
    /\ wsErrored[1] /\ sent[1] = <<>>
    /\ audio[1] = "rejected"

\* ---- C34
\* C34: no stt_output with an empty transcript is ever pushed: a formatted
\* Turn message whose transcript is empty or absent pushes no event, while
\* a Turn that is not formatted pushes exactly one stt_chunk carrying the
\* message's transcript, an empty one included.
C34_NoEmptyOutput ==
    [][/\ \A s \in Sockets, m \in Messages :
            WsMessage(s, m) =>
              /\ (IsFinalTurn(m) /\ ~TruthyString(m.transcript)) => pushed' = pushed
              /\ (m.type = "Turn" /\ ~TruthyFlag(m.turn_is_formatted)) =>
                    pushed' = Append(pushed, STTEvent("stt_chunk", m.transcript))
       /\ \A i \in 1..Len(pushed') :
            pushed'[i].type = "stt_output" => TruthyString(pushed'[i].transcript)]_vars

\* C34 witness: two messages were received, one of them an unformatted Turn
\* with an empty transcript that was pushed as an stt_chunk, and the other
\* pushed nothing.
C34_Witness ==
    /\ nMsgs = 2
    /\ pushed = <<STTEvent("stt_chunk", "")>>

\* ---- C35
\* C35: the options determine the connection parameters: formatTurns is the
\* option when one is given, false included, and true when it is omitted;
\* sampleRate is the option, or 16000 when it is omitted; and format_turns
\* and sample_rate of the connection request are those two values.
C35_OptionsDetermineParameters ==
    /\ \A i \in 1..Len(adapter) :
        /\ adapter[i].formatTurns =
              (IF options[i].formatTurns = Undefined THEN TRUE
               ELSE options[i].formatTurns = "true")
        /\ adapter[i].sampleRate =
              (IF options[i].sampleRate = NoRate THEN 16000
               ELSE options[i].sampleRate)
    /\ \A i \in 1..Len(request) :
        /\ request[i].format_turns =
              (IF options[i].formatTurns = Undefined THEN "true"
               ELSE options[i].formatTurns)
        /\ request[i].sample_rate =
              (IF options[i].sampleRate = NoRate THEN "16000"
               ELSE NumberToString(options[i].sampleRate))

\* ---- C36
\* C36: no adapter exists without an API key: the constructor throws, and
\* leaves no adapter, exactly when neither the apiKey option nor
\* ASSEMBLYAI_API_KEY is a non-empty string; an adapter that exists has a
\* non-empty apiKey; and every connection request carries a non-empty
\* Authorization value.
C36_NoAdapterWithoutApiKey ==
    /\ \A i \in 1..Len(options) :
          (ctorPc = "thrown") =
              (options[i].apiKey \in {Undefined, ""} /\ envKey \in {Undefined, ""})
    /\ ctorPc = "thrown" => adapter = <<>> /\ request = <<>>
    /\ \A i \in 1..Len(adapter) : adapter[i].apiKey \notin {Undefined, ""}
    /\ \A i \in 1..Len(request) : request[i].Authorization \notin {Undefined, ""}

\* C36 witness: the constructor was called with an empty apiKey option
\* while the environment variable was not set, and threw.
C36_Witness ==
    /\ ctorPc = "thrown"
    /\ Len(options) = 1 /\ options[1].apiKey = "" /\ envKey = Undefined

====
